---- MODULE Spec2Model ----
(***************************************************************************)
(* RopeText (lapce-core/src/buffer/rope_text.rs): offset / line / column / *)
(* position arithmetic over an immutable rope, and CharIndicesJoin, the    *)
(* adapter that joins the rope's per-chunk char_indices streams.           *)
(*                                                                         *)
(* A document is a sequence of characters.  Every character has a UTF-8    *)
(* length, a UTF-16 length, a whitespace class and a grapheme-break class, *)
(* and offsets are byte offsets, as in the source.                         *)
(***************************************************************************)
EXTENDS Integers, Sequences, FiniteSets, TLC

\* ---------------------------------------------------------------- bounds
\* Longest document, in characters, the facade is exercised on.
MaxLen == 3
\* How far past last_line + 1 a line argument may lie.
LineSlack == 2
\* Largest `count` passed to prev_grapheme_offset.
MaxCount == 2
\* Longest document, in characters, handed to the joiner.
MaxJoinLen == 3
\* Largest number of chunks an outer sequence yields.
MaxChunks == 3

\* ------------------------------------------------------------ characters
\* "a": U+0061, "SP": U+0020, "LF": U+000A, "CR": U+000D,
\* "ACUTE": U+0301 COMBINING ACUTE ACCENT, "EMOJI": U+1F600.
Chars == {"a", "SP", "LF", "CR", "ACUTE", "EMOJI"}

\* The characters that differ for grapheme steps and for UTF-16 columns:
\* "SP" behaves there as "a" does.
WideChars == {"a", "LF", "CR", "ACUTE", "EMOJI"}

\* The characters the joiner is exercised on: one, two and four bytes long.
JoinChars == {"a", "LF", "ACUTE", "EMOJI"}

len_utf8(c) == CASE c = "ACUTE" -> 2 [] c = "EMOJI" -> 4 [] OTHER -> 1

len_utf16(c) == IF c = "EMOJI" THEN 2 ELSE 1

Min(a, b) == IF a < b THEN a ELSE b

Max(a, b) == IF a > b THEN a ELSE b

\* All sequences over S of length at most n.
SeqsUpTo(S, n) == UNION {[1..k -> S] : k \in 0..n}

RECURSIVE ByteLen(_)
\* str::len : the number of UTF-8 bytes of a string.
ByteLen(s) == IF s = <<>> THEN 0 ELSE len_utf8(Head(s)) + ByteLen(Tail(s))

\* Byte offset at which the i-th character (1-based) of s starts;
\* StartOf(s, Len(s) + 1) is the byte length.
StartOf(s, i) == ByteLen(SubSeq(s, 1, i - 1))

\* The codepoint boundaries of s, 0 and the byte length included.
CodepointBoundaries(s) == {StartOf(s, i) : i \in 1..(Len(s) + 1)}

\* Number of characters of s that start strictly before byte offset o.
CharsBefore(s, o) == Cardinality({i \in 1..Len(s) : StartOf(s, i) < o})

\* str::char_indices : the (byte offset, char) pairs of a string.
char_indices(s) == [i \in 1..Len(s) |-> <<StartOf(s, i), s[i]>>]

\* -------------------------------------------------------- rope primitives
\* Returned in place of an offset when the rope panics.
PANIC == -1

\* Rope::len
RopeLen(t) == ByteLen(t)

\* measure::<LinesMetric> : the number of line feeds of the rope.
RopeLines(t) == Cardinality({i \in 1..Len(t) : t[i] = "LF"})

\* Rope::line_of_offset : the number of line feeds before the offset.
RopeLineOfOffset(t, offset) ==
    Cardinality({i \in 1..Len(t) : t[i] = "LF" /\ StartOf(t, i) < offset})

\* Rope::offset_of_line : panics beyond line count + 1, the length at
\* line count + 1, else the offset just after the line-th line feed.
RopeOffsetOfLine(t, line) ==
    IF line > RopeLines(t) + 1 THEN PANIC
    ELSE IF line = RopeLines(t) + 1 THEN RopeLen(t)
    ELSE IF line = 0 THEN 0
    ELSE LET i == CHOOSE j \in 1..Len(t) :
                     /\ t[j] = "LF"
                     /\ Cardinality({k \in 1..j : t[k] = "LF"}) = line
         IN  StartOf(t, i + 1)

\* Rope::at_or_prev_codepoint_boundary
RopeAtOrPrevCodepointBoundary(t, offset) ==
    LET below == {b \in CodepointBoundaries(t) : b <= offset}
    IN  CHOOSE b \in below : \A c \in below : c <= b

\* Rope::slice_to_cow : the characters lying in the byte range [a, b).
RopeSliceToCow(t, a, b) ==
    LET from == CharsBefore(t, a)
        to   == CharsBefore(t, b)
    IN  SubSeq(t, from + 1, to)

\* Returned in place of Some(offset) when a cursor has nowhere to go.
NONE == -2

\* No grapheme boundary lies between the characters c1 c2 when they are
\* CR LF (GB3) or when c2 extends c1 and c1 is not a control (GB4, GB9).
NoBreak(c1, c2) ==
    \/ c1 = "CR" /\ c2 = "LF"
    \/ c2 = "ACUTE" /\ c1 \notin {"CR", "LF"}

\* The grapheme cluster boundaries of s (GB1, GB2: its two ends).
GraphemeBoundaries(s) ==
    {0, ByteLen(s)} \cup
    {StartOf(s, i) : i \in {j \in 2..Len(s) : ~NoBreak(s[j - 1], s[j])}}

\* Cursor::new(t, pos) followed by Cursor::prev_grapheme : the position is
\* moved back to a codepoint boundary, then the closest grapheme boundary
\* strictly before it is returned, None when there is none.
CursorPrevGrapheme(t, pos) ==
    LET p     == RopeAtOrPrevCodepointBoundary(t, pos)
        below == {b \in GraphemeBoundaries(t) : b < p}
    IN  IF below = {} THEN NONE
        ELSE CHOOSE b \in below : \A c \in below : c <= b

\* Rope::iter_chunks(a..b) : the range [a, b) cut at the rope's leaf
\* boundaries `cuts`, each chunk non-empty, none for an empty range.
RopeIterChunks(t, a, b, cuts) ==
    LET marks == {a, b} \cup {c \in cuts : a < c /\ c < b}
        n     == Cardinality(marks) - 1
        mark(k) == CHOOSE m \in marks :
                       Cardinality({x \in marks : x < m}) = k
    IN  [k \in 1..n |-> RopeSliceToCow(t, mark(k - 1), mark(k))]

\* The leaf boundaries a rope holding t may have: any set of codepoint
\* boundaries strictly inside the text.
LeafCuts(t) == SUBSET (CodepointBoundaries(t) \ {0, ByteLen(t)})

\* get_char_property(c) = CharClassification::Space : at most U+0020,
\* neither CR nor LF.
IsSpace(c) == c = "SP"

RECURSIVE NextNonBlankChar(_, _)
\* WordCursor::new(t, pos).next_non_blank_char() : the offset of the first
\* codepoint at or after pos that is not Space, the length when none.
NextNonBlankChar(t, pos) ==
    LET i == CharsBefore(t, pos) + 1
    IN  IF i > Len(t) THEN pos
        ELSE IF IsSpace(t[i]) THEN NextNonBlankChar(t, pos + len_utf8(t[i]))
        ELSE pos

RECURSIVE Utf8ToUtf16Loop(_, _, _)
\* The `for (utf8_offset, ch) in char_indices` loop of offset_utf8_to_utf16.
Utf8ToUtf16Loop(ci, offset, utf16_offset) ==
    IF ci = <<>> THEN utf16_offset
    ELSE IF Head(ci)[1] < offset
         THEN Utf8ToUtf16Loop(Tail(ci), offset,
                              utf16_offset + len_utf16(Head(ci)[2]))
         ELSE utf16_offset

\* encoding::offset_utf8_to_utf16
offset_utf8_to_utf16(ci, offset) ==
    IF offset = 0 THEN 0 ELSE Utf8ToUtf16Loop(ci, offset, 0)

RECURSIVE Utf16ToUtf8Loop(_, _, _, _)
\* The `for (utf8_offset, ch) in char_indices` loop of offset_utf16_to_utf8;
\* text_end is the end of the last pair seen, 0 before the first.
Utf16ToUtf8Loop(ci, offset, utf16_offset, text_end) ==
    IF ci = <<>> THEN text_end
    ELSE IF utf16_offset < offset
         THEN Utf16ToUtf8Loop(Tail(ci), offset,
                              utf16_offset + len_utf16(Head(ci)[2]),
                              Head(ci)[1] + len_utf8(Head(ci)[2]))
         ELSE Head(ci)[1]

\* encoding::offset_utf16_to_utf8
offset_utf16_to_utf8(ci, offset) ==
    IF offset = 0 THEN 0 ELSE Utf16ToUtf8Loop(ci, offset, 0, 0)

\* ------------------------------------------------------ CharIndicesJoin
\* Option<I>::None for current_indices.
NoIndices == [some |-> FALSE, items |-> <<>>]

\* CharIndicesJoin::new
CharIndicesJoin_new(main_iter) ==
    [main_iter |-> main_iter, current_indices |-> NoIndices,
     current_base |-> 0, latest_base |-> 0]

\* Iterator::next returning None.
None == <<>>

RECURSIVE CharIndicesJoin_next_stale_base(_)
\* A variant that keeps the old current_base when it pulls a chunk.
CharIndicesJoin_next_stale_base(j) ==
    IF j.current_indices.some /\ j.current_indices.items # <<>>
    THEN LET next_offset == j.current_base + Head(j.current_indices.items)[1]
             next_ch     == Head(j.current_indices.items)[2]
         IN  [j |-> [j EXCEPT !.current_indices.items = Tail(@),
                              !.latest_base = next_offset + len_utf8(next_ch)],
              item |-> <<next_offset, next_ch>>]
    ELSE IF j.main_iter # <<>>
    THEN CharIndicesJoin_next_stale_base(
             [j EXCEPT !.current_indices =
                           [some |-> TRUE,
                            items |-> char_indices(Head(j.main_iter))],
                       !.main_iter = Tail(@)])
    ELSE [j |-> j, item |-> None]

RECURSIVE CharIndicesJoin_next(_)
\* CharIndicesJoin::next : the joiner after the call and the item returned.
\* main_iter holds the chunks not yet pulled; pulling one maps it through
\* str::char_indices.
CharIndicesJoin_next(j) ==
    IF j.current_indices.some /\ j.current_indices.items # <<>>
    THEN LET next_offset == j.current_base + Head(j.current_indices.items)[1]
             next_ch     == Head(j.current_indices.items)[2]
         IN  [j |-> [j EXCEPT !.current_indices.items = Tail(@),
                              !.latest_base = next_offset + len_utf8(next_ch)],
              item |-> <<next_offset, next_ch>>]
    ELSE IF j.main_iter # <<>>
    THEN CharIndicesJoin_next(
             [j EXCEPT !.current_indices =
                           [some |-> TRUE,
                            items |-> char_indices(Head(j.main_iter))],
                       !.main_iter = Tail(@),
                       !.current_base = j.latest_base])
    ELSE [j |-> j, item |-> None]

RECURSIVE Drain(_)
\* The items a joiner yields until its first None.
Drain(j) ==
    LET r == CharIndicesJoin_next(j)
    IN  IF r.item = None THEN <<>> ELSE <<r.item>> \o Drain(r.j)

\* -------------------------------------------------- RopeText: lines
len(t) == RopeLen(t)

is_empty(t) == len(t) = 0

line_of_offset(t, offset) ==
    LET o1 == Min(offset, len(t))
        o2 == RopeAtOrPrevCodepointBoundary(t, o1)
    IN  RopeLineOfOffset(t, o2)

last_line(t) == line_of_offset(t, len(t))

\* A variant that clamps to last_line instead of last_line + 1.
offset_of_line_clamp_low(t, line) ==
    RopeOffsetOfLine(t, Min(line, last_line(t)))

offset_of_line(t, line) ==
    LET ll == last_line(t)
        l2 == Min(line, ll + 1)
    IN  RopeOffsetOfLine(t, l2)

slice_to_cow(t, a, b) ==
    RopeSliceToCow(t, Min(a, len(t)), Min(b, len(t)))

\* A variant that ends the line one byte early.
line_content_short(t, line) ==
    RopeSliceToCow(t, offset_of_line(t, line),
                   Max(offset_of_line(t, line), offset_of_line(t, line + 1) - 1))

line_content(t, line) ==
    RopeSliceToCow(t, offset_of_line(t, line), offset_of_line(t, line + 1))

\* str::ends_with
EndsWith(s, suffix) ==
    /\ Len(s) >= Len(suffix)
    /\ SubSeq(s, Len(s) - Len(suffix) + 1, Len(s)) = suffix

RECURSIVE PrevGraphemeLoopInclusive(_, _, _, _)
\* A variant that also refuses a boundary exactly at the limit.
PrevGraphemeLoopInclusive(t, new_offset, i, limit) ==
    IF i = 0 THEN new_offset
    ELSE LET prev_offset == CursorPrevGrapheme(t, new_offset)
         IN  IF prev_offset = NONE THEN new_offset
             ELSE IF prev_offset <= limit THEN new_offset
             ELSE PrevGraphemeLoopInclusive(t, prev_offset, i - 1, limit)

RECURSIVE PrevGraphemeLoop(_, _, _, _)
\* The `for _i in 0..count` loop of prev_grapheme_offset, `i` iterations
\* left, the cursor at new_offset.
PrevGraphemeLoop(t, new_offset, i, limit) ==
    IF i = 0 THEN new_offset
    ELSE LET prev_offset == CursorPrevGrapheme(t, new_offset)
         IN  IF prev_offset = NONE THEN new_offset
             ELSE IF prev_offset < limit THEN new_offset
             ELSE PrevGraphemeLoop(t, prev_offset, i - 1, limit)

\* A variant that always takes a first step.
prev_grapheme_offset_do_while(t, offset, count, limit) ==
    PrevGraphemeLoop(t, Min(offset, len(t)), Max(count, 1), limit)

prev_grapheme_offset(t, offset, count, limit) ==
    PrevGraphemeLoop(t, Min(offset, len(t)), count, limit)

\* A variant that trims the line feed only, never the carriage return.
line_end_offset_lf_only(t, line, caret) ==
    LET offset0 == offset_of_line(t, line + 1)
        lc0     == line_content(t, line)
        lf      == EndsWith(lc0, <<"LF">>)
        offset1 == IF lf THEN offset0 - 1 ELSE offset0
        lc1     == IF lf THEN SubSeq(lc0, 1, Len(lc0) - 1) ELSE lc0
    IN  IF ~caret /\ lc1 # <<>>
        THEN prev_grapheme_offset(t, offset1, 1, 0)
        ELSE offset1

\* A variant that steps back one byte instead of one grapheme cluster.
line_end_offset_one_byte(t, line, caret) ==
    LET offset0 == offset_of_line(t, line + 1)
        lc0     == line_content(t, line)
        crlf    == EndsWith(lc0, <<"CR", "LF">>)
        lf      == EndsWith(lc0, <<"LF">>)
        offset1 == IF crlf THEN offset0 - 2
                   ELSE IF lf THEN offset0 - 1 ELSE offset0
        lc1     == IF crlf THEN SubSeq(lc0, 1, Len(lc0) - 2)
                   ELSE IF lf THEN SubSeq(lc0, 1, Len(lc0) - 1) ELSE lc0
    IN  IF ~caret /\ lc1 # <<>> THEN offset1 - 1 ELSE offset1

line_end_offset(t, line, caret) ==
    LET offset0 == offset_of_line(t, line + 1)
        lc0     == line_content(t, line)
        crlf    == EndsWith(lc0, <<"CR", "LF">>)
        lf      == EndsWith(lc0, <<"LF">>)
        offset1 == IF crlf THEN offset0 - 2
                   ELSE IF lf THEN offset0 - 1 ELSE offset0
        lc1     == IF crlf THEN SubSeq(lc0, 1, Len(lc0) - 2)
                   ELSE IF lf THEN SubSeq(lc0, 1, Len(lc0) - 1) ELSE lc0
    IN  IF ~caret /\ lc1 # <<>>
        THEN prev_grapheme_offset(t, offset1, 1, 0)
        ELSE offset1

offset_line_end(t, offset, caret) ==
    line_end_offset(t, line_of_offset(t, offset), caret)

line_end_col(t, line, caret) ==
    line_end_offset(t, line, caret) - offset_of_line(t, line)

\* A variant that clamps lines past the end to last_line + 1.
first_non_blank_character_on_line_clamp_high(t, line) ==
    NextNonBlankChar(t, RopeOffsetOfLine(t, Min(line, last_line(t) + 1)))

first_non_blank_character_on_line(t, line) ==
    LET ll == last_line(t)
        l2 == IF line > ll + 1 THEN ll ELSE line
        line_start_offset == RopeOffsetOfLine(t, l2)
    IN  NextNonBlankChar(t, line_start_offset)

\* The String returned, or the panic raised on the way.
indent_on_line(t, line) ==
    LET line_start_offset == RopeOffsetOfLine(t, line)
    IN  IF line_start_offset = PANIC
        THEN [panicked |-> TRUE, txt |-> <<>>]
        ELSE [panicked |-> FALSE,
              txt |-> RopeSliceToCow(t, line_start_offset,
                          NextNonBlankChar(t, line_start_offset))]

\* A variant whose offsets start at the start of the range.
char_indices_iter_absolute(t, a, b, cuts) ==
    [CharIndicesJoin_new(RopeIterChunks(t, a, b, cuts))
        EXCEPT !.current_base = a, !.latest_base = a]

\* The joiner over the chunks of [a, b) of a rope whose leaves end at cuts.
char_indices_iter(t, a, b, cuts) ==
    CharIndicesJoin_new(RopeIterChunks(t, a, b, cuts))

\* -------------------------------------------- RopeText: columns, positions
offset_to_line_col(t, offset) ==
    LET o    == Min(offset, len(t))
        line == line_of_offset(t, o)
        line_start == offset_of_line(t, line)
    IN  IF o = line_start THEN <<line, 0>> ELSE <<line, o - line_start>>

RECURSIVE LineColLoopInclusive(_, _, _, _)
\* A variant that stops one character early.
LineColLoopInclusive(cs, col, pos, offset) ==
    IF cs = <<>> THEN offset
    ELSE IF Head(cs) = "LF" THEN offset
    ELSE IF pos + len_utf8(Head(cs)) >= col THEN offset
    ELSE LineColLoopInclusive(Tail(cs), col, pos + len_utf8(Head(cs)),
                              offset + len_utf8(Head(cs)))

RECURSIVE LineColLoop(_, _, _, _)
\* The `for c in ... .chars()` loop of offset_of_line_col.
LineColLoop(cs, col, pos, offset) ==
    IF cs = <<>> THEN offset
    ELSE IF Head(cs) = "LF" THEN offset
    ELSE IF pos + len_utf8(Head(cs)) > col THEN offset
    ELSE LineColLoop(Tail(cs), col, pos + len_utf8(Head(cs)),
                     offset + len_utf8(Head(cs)))

offset_of_line_col(t, line, col) ==
    LET offset == offset_of_line(t, line)
    IN  LineColLoop(slice_to_cow(t, offset, offset_of_line(t, line + 1)),
                    col, 0, offset)

offset_to_position(t, offset, cuts) ==
    LET lc          == offset_to_line_col(t, offset)
        line_offset == offset_of_line(t, lc[1])
        utf16_col   == offset_utf8_to_utf16(
                           Drain(char_indices_iter(t, line_offset, len(t), cuts)),
                           lc[2])
    IN  [line |-> lc[1], character |-> utf16_col]

position_to_line_col(t, pos, cuts) ==
    LET line_offset == offset_of_line(t, pos.line)
        column      == offset_utf16_to_utf8(
                           Drain(char_indices_iter(t, line_offset, len(t), cuts)),
                           pos.character)
    IN  <<pos.line, column>>

offset_of_position(t, pos, cuts) ==
    LET lc == position_to_line_col(t, pos, cuts)
    IN  offset_of_line_col(t, lc[1], lc[2])

num_lines(t) == last_line(t) + 1

line_len(t, line) == offset_of_line(t, line + 1) - offset_of_line(t, line)

\* ------------------------------------------------------------------ state
VARIABLES
    doc,    \* the rope the RopeText borrows: a sequence of characters
    call,   \* the last facade call: its name, arguments and result
    join,   \* the CharIndicesJoin under iteration: its four fields
    jsrc,   \* how `join` was built: over given chunks or over a byte range
    out,    \* the items `join` has returned so far, in order
    jpc     \* "idle": no joiner, "live": iterating, "done": returned None

vars == <<doc, call, join, jsrc, out, jpc>>

NoCall == [op |-> "none"]

NoSrc == [kind |-> "none", a |-> 0, b |-> 0, chunks |-> <<>>]

\* The line numbers a caller passes.
LineArgs(t) == 0..(last_line(t) + 1 + LineSlack)

\* The byte offsets a caller passes: every byte of the rope, on a
\* codepoint boundary or not, and one past the end.
OffsetArgs(t) == 0..(len(t) + 1)

InitJoiner ==
    /\ join = CharIndicesJoin_new(<<>>)
    /\ jsrc = NoSrc
    /\ out = <<>>
    /\ jpc = "idle"

Init ==
    /\ doc \in SeqsUpTo(Chars, MaxLen)
    /\ call = NoCall
    /\ InitJoiner

joiner == <<join, jsrc, out, jpc>>

\* A RopeText is built over the rope for one request, which makes one
\* call, or one run of calls that feed each other.
OffsetOfLine ==
    \E line \in LineArgs(doc) :
        /\ call = NoCall
        /\ call' = [op |-> "offset_of_line", line |-> line,
                    res |-> offset_of_line(doc, line)]
        /\ UNCHANGED <<doc, joiner>>

\* line_content(line); `acc` is the concatenation of the contents of the
\* lines 0..line when the caller has read them in that order (`inorder`).
LineContent ==
    \E line \in LineArgs(doc) :
        LET txt     == line_content(doc, line)
            follows == /\ call.op = "line_content"
                       /\ call.inorder
                       /\ call.line = line - 1
            inorder == line = 0 \/ follows
        IN  /\ call = NoCall \/ follows
            /\ call' = [op |-> "line_content", line |-> line, txt |-> txt,
                        inorder |-> inorder,
                        acc |-> IF line = 0 THEN txt
                                ELSE IF follows THEN call.acc \o txt
                                ELSE <<>>]
            /\ UNCHANGED <<doc, joiner>>

LineEndOffset ==
    \E line \in LineArgs(doc), caret \in BOOLEAN :
        /\ call = NoCall
        /\ call' = [op |-> "line_end_offset", line |-> line,
                    caret |-> caret,
                    res |-> line_end_offset(doc, line, caret)]
        /\ UNCHANGED <<doc, joiner>>

FirstNonBlankCharacterOnLine ==
    \E line \in LineArgs(doc) :
        /\ call = NoCall
        /\ call' = [op |-> "first_non_blank_character_on_line",
                    line |-> line,
                    res |-> first_non_blank_character_on_line(doc, line)]
        /\ UNCHANGED <<doc, joiner>>

IndentOnLine ==
    \E line \in LineArgs(doc) :
        LET r == indent_on_line(doc, line)
        IN  /\ call = NoCall
            /\ call' = [op |-> "indent_on_line", line |-> line,
                        panicked |-> r.panicked, txt |-> r.txt]
            /\ UNCHANGED <<doc, joiner>>

Next ==
    \/ OffsetOfLine
    \/ LineContent
    \/ LineEndOffset
    \/ FirstNonBlankCharacterOnLine
    \/ IndentOnLine

Spec == Init /\ [][Next]_vars

\* ------------------------------------------------------ grapheme steps
InitGrapheme ==
    /\ doc \in SeqsUpTo(WideChars, MaxLen)
    /\ call = NoCall
    /\ InitJoiner

PrevGraphemeOffset ==
    \E offset \in OffsetArgs(doc), count \in 0..MaxCount,
       limit \in OffsetArgs(doc) :
        /\ call = NoCall
        /\ call' = [op |-> "prev_grapheme_offset", offset |-> offset,
                    count |-> count, limit |-> limit,
                    res |-> prev_grapheme_offset(doc, offset, count, limit)]
        /\ UNCHANGED <<doc, joiner>>

NextGrapheme == PrevGraphemeOffset

SpecGrapheme == InitGrapheme /\ [][NextGrapheme]_vars

\* ------------------------------------------------------------- positions
InitPosition ==
    /\ doc \in SeqsUpTo(WideChars, MaxLen)
    /\ call = NoCall
    /\ InitJoiner

OffsetToPosition ==
    \E offset \in OffsetArgs(doc), cuts \in LeafCuts(doc) :
        /\ call = NoCall
        /\ call' = [op |-> "offset_to_position", offset |-> offset,
                    pos |-> offset_to_position(doc, offset, cuts)]
        /\ UNCHANGED <<doc, joiner>>

\* offset_of_position on the position offset_to_position has just
\* returned for the offset `from`.
OffsetOfPosition ==
    \E cuts \in LeafCuts(doc) :
        /\ call.op = "offset_to_position"
        /\ call' = [op |-> "offset_of_position", pos |-> call.pos,
                    from |-> call.offset,
                    res |-> offset_of_position(doc, call.pos, cuts)]
        /\ UNCHANGED <<doc, joiner>>

NextPosition ==
    \/ OffsetToPosition
    \/ OffsetOfPosition

SpecPosition == InitPosition /\ [][NextPosition]_vars

\* ------------------------------------------------------------ the joiner
\* Every way of cutting s into m consecutive chunks, empty ones included.
ChunkingsInto(s, m) ==
    IF m = 0 THEN IF s = <<>> THEN {<<>>} ELSE {}
    ELSE LET ends == {c \in [1..m -> 0..Len(s)] :
                         /\ c[m] = Len(s)
                         /\ \A k \in 1..(m - 1) : c[k] <= c[k + 1]}
         IN  {[k \in 1..m |->
                  SubSeq(s, (IF k = 1 THEN 0 ELSE c[k - 1]) + 1, c[k])] :
              c \in ends}

Chunkings(s) == UNION {ChunkingsInto(s, m) : m \in 0..MaxChunks}

InitJoin ==
    /\ doc \in SeqsUpTo(JoinChars, MaxJoinLen)
    /\ call = NoCall
    /\ InitJoiner

\* CharIndicesJoin::new over the char_indices streams of given chunks.
JoinNew ==
    \E chunks \in Chunkings(doc) :
        /\ jpc = "idle"
        /\ join' = CharIndicesJoin_new(chunks)
        /\ jsrc' = [kind |-> "chunks", a |-> 0, b |-> len(doc),
                    chunks |-> chunks]
        /\ out' = <<>>
        /\ jpc' = "live"
        /\ UNCHANGED <<doc, call>>

\* RopeText::char_indices_iter(a..b)
CharIndicesIter ==
    \E a \in CodepointBoundaries(doc), b \in CodepointBoundaries(doc),
       cuts \in LeafCuts(doc) :
        /\ jpc = "idle"
        /\ a <= b
        /\ join' = char_indices_iter(doc, a, b, cuts)
        /\ jsrc' = [kind |-> "range", a |-> a, b |-> b,
                    chunks |-> RopeIterChunks(doc, a, b, cuts)]
        /\ out' = <<>>
        /\ jpc' = "live"
        /\ UNCHANGED <<doc, call>>

\* One call of CharIndicesJoin::next, also after it has returned None.
JoinNext ==
    LET r == CharIndicesJoin_next(join)
    IN  /\ jpc \in {"live", "done"}
        /\ join' = r.j
        /\ out' = IF r.item = None THEN out ELSE Append(out, r.item)
        /\ jpc' = IF r.item = None THEN "done" ELSE "live"
        /\ UNCHANGED <<doc, call, jsrc>>

NextJoin ==
    \/ JoinNew
    \/ CharIndicesIter
    \/ JoinNext

SpecJoin == InitJoin /\ [][NextJoin]_vars

\* ------------------------------------------------------------ properties

\* C1: offset_of_line(n) never panics and returns the start offset of line
\* min(n, last_line + 1): for n at most the number of line feeds, the offset
\* just after the n-th line feed (0 for n = 0); for every larger n, the byte
\* length of the document; on the empty document always 0.
C1_OffsetOfLineClamps ==
    call.op = "offset_of_line" =>
        LET starts == {0} \cup {StartOf(doc, i + 1) :
                                   i \in {j \in 1..Len(doc) : doc[j] = "LF"}}
            feeds  == Cardinality({j \in 1..Len(doc) : doc[j] = "LF"})
        IN  /\ call.res # PANIC
            /\ call.line <= feeds =>
                   /\ call.res \in starts
                   /\ Cardinality({x \in starts : x < call.res}) = call.line
            /\ call.line >= feeds + 1 => call.res = ByteLen(doc)
            /\ doc = <<>> => call.res = 0

\* C1 witness: a line number two past the last line of a document that has
\* a line feed and a non-empty last line resolved to the length.
C1_Witness ==
    /\ call.op = "offset_of_line"
    /\ doc = <<"a", "LF", "a">>
    /\ call.line = 3
    /\ call.res = 3

\* C2: line_content(n) is empty for every n past the last line, every line
\* before the last ends with its own line feed and holds no other, and the
\* contents of lines 0..last_line read in order concatenate to the document.
C2_LineContentsRebuildDocument ==
    call.op = "line_content" =>
        LET feeds == Cardinality({j \in 1..Len(doc) : doc[j] = "LF"})
            inner == {j \in 1..(Len(call.txt) - 1) : call.txt[j] = "LF"}
        IN  /\ call.line > feeds => call.txt = <<>>
            /\ inner = {}
            /\ call.line < feeds =>
                   /\ call.txt # <<>>
                   /\ call.txt[Len(call.txt)] = "LF"
            /\ call.line = feeds /\ call.txt # <<>> =>
                   call.txt[Len(call.txt)] # "LF"
            /\ call.inorder /\ call.line = feeds => call.acc = doc

\* C2 witness: a document with a CRLF line and an LF line, ending in a
\* terminator, read line by line up to its last (empty) line.
C2_Witness ==
    /\ call.op = "line_content"
    /\ doc = <<"CR", "LF", "LF">>
    /\ call.inorder
    /\ call.line = 2
    /\ call.txt = <<>>
    /\ call.acc = doc

\* C3: offset_of_position(offset_to_position(o)) = o for every offset o of
\* the document that lies on a codepoint boundary.
C3_PositionRoundTrip ==
    (/\ call.op = "offset_of_position"
     /\ call.from \in CodepointBoundaries(doc)) => call.res = call.from

\* C3 witness: the offset between CR and LF, on a line that starts with a
\* character taking a UTF-16 surrogate pair, converted there and back.
C3_Witness ==
    /\ call.op = "offset_of_position"
    /\ doc = <<"EMOJI", "CR", "LF">>
    /\ call.from = 5
    /\ call.pos = [line |-> 0, character |-> 3]
    /\ call.res = 5

\* C4: a joiner over any chunking of the document, empty chunks included,
\* yields the items of char_indices on the whole document in order, returns
\* None only once the outer sequence is exhausted and every item has been
\* yielded, and keeps returning None; while it runs, latest_base is the end
\* of the last item yielded and the next item of the current stream, shifted
\* by current_base, starts there.
C4_JoinEqualsCharIndices ==
    jsrc.kind = "chunks" =>
        LET whole == char_indices(doc)
            items == join.current_indices.items
        IN  /\ Len(out) <= Len(whole)
            /\ out = SubSeq(whole, 1, Len(out))
            /\ join.latest_base =
                   IF out = <<>> THEN 0
                   ELSE out[Len(out)][1] + len_utf8(out[Len(out)][2])
            /\ items # <<>> =>
                   join.current_base + Head(items)[1] = join.latest_base
            /\ jpc = "done" =>
                   /\ out = whole
                   /\ join.main_iter = <<>>
                   /\ items = <<>>

\* C4 witness: a document cut into a four-byte chunk, an empty chunk and a
\* two-character chunk, drained to None.
C4_Witness ==
    /\ jsrc.kind = "chunks"
    /\ jsrc.chunks = << <<"EMOJI">>, <<>>, <<"a", "LF">> >>
    /\ jpc = "done"
    /\ out = << <<0, "EMOJI">>, <<4, "a">>, <<5, "LF">> >>

\* C5 as stated: every pair char_indices_iter(s..e) yields carries the
\* absolute byte offset of its character, the first pair the offset s.
C5_AbsoluteOffsets ==
    jsrc.kind = "range" =>
        LET whole == char_indices(doc)
            k     == CharsBefore(doc, jsrc.a)
        IN  /\ \A i \in 1..Len(out) : out[i] = whole[k + i]
            /\ out # <<>> => out[1][1] = jsrc.a

\* C5 amended: every pair char_indices_iter(s..e) yields carries the byte
\* offset of its character relative to s (absolute offset minus s), so the
\* first pair has offset 0, and drained, the pairs are those of the
\* full-document stream restricted to [s, e) with s subtracted.
C5_RelativeOffsets ==
    jsrc.kind = "range" =>
        LET whole == char_indices(doc)
            k     == CharsBefore(doc, jsrc.a)
            n     == CharsBefore(doc, jsrc.b) - k
        IN  /\ Len(out) <= n
            /\ \A i \in 1..Len(out) :
                   out[i] = <<whole[k + i][1] - jsrc.a, whole[k + i][2]>>
            /\ out # <<>> => out[1][1] = 0
            /\ jpc = "done" => Len(out) = n

\* C5 witness: a range that starts after a four-byte character, drained.
C5_Witness ==
    /\ jsrc.kind = "range"
    /\ doc = <<"EMOJI", "ACUTE", "a">>
    /\ jsrc.a = 4
    /\ jsrc.b = 7
    /\ jpc = "done"
    /\ out = << <<0, "ACUTE">>, <<2, "a">> >>

\* C6: line_end_offset(line, true) is offset_of_line(line + 1) less 2 when
\* the line's content ends with CR LF, less 1 when it ends with LF only,
\* and unchanged otherwise; every line past the last resolves to the length
\* for both caret values; on the empty document the result is always 0.
C6_LineEndTrimsTerminator ==
    call.op = "line_end_offset" =>
        LET next  == offset_of_line(doc, call.line + 1)
            lc    == line_content(doc, call.line)
            feeds == Cardinality({j \in 1..Len(doc) : doc[j] = "LF"})
            n     == Len(lc)
            trim  == IF n >= 2 /\ lc[n - 1] = "CR" /\ lc[n] = "LF" THEN 2
                     ELSE IF n >= 1 /\ lc[n] = "LF" THEN 1
                     ELSE 0
        IN  /\ call.caret => call.res = next - trim
            /\ call.line > feeds => call.res = ByteLen(doc)
            /\ doc = <<>> => call.res = 0

\* C6 witness: the caret end of a line that ends with CR LF.
C6_Witness ==
    /\ call.op = "line_end_offset"
    /\ doc = <<"a", "CR", "LF">>
    /\ call.line = 0
    /\ call.caret
    /\ call.res = 1

\* C7: line_end_offset(line, true) - line_end_offset(line, false) is the
\* byte length of the last grapheme cluster of the line's content without
\* its terminator, 0 when that content is empty, and
\* line_end_offset(line, false) is never below offset_of_line(line).
C7_CaretStepsOneGrapheme ==
    (call.op = "line_end_offset" /\ ~call.caret) =>
        LET lc    == line_content(doc, call.line)
            n     == Len(lc)
            body  == IF n >= 2 /\ lc[n - 1] = "CR" /\ lc[n] = "LF"
                     THEN SubSeq(lc, 1, n - 2)
                     ELSE IF n >= 1 /\ lc[n] = "LF" THEN SubSeq(lc, 1, n - 1)
                     ELSE lc
            inner == {b \in GraphemeBoundaries(body) : b < ByteLen(body)}
            last  == IF body = <<>> THEN 0
                     ELSE ByteLen(body) -
                          (CHOOSE b \in inner : \A c \in inner : c <= b)
        IN  /\ line_end_offset(doc, call.line, TRUE) - call.res = last
            /\ call.res = offset_of_line(doc, call.line) + ByteLen(body) - last
            /\ call.res >= offset_of_line(doc, call.line)

\* C7 witness: a line whose last grapheme cluster is a letter and a
\* combining mark, three bytes long, before the line feed.
C7_Witness ==
    /\ call.op = "line_end_offset"
    /\ doc = <<"a", "ACUTE", "LF">>
    /\ call.line = 0
    /\ ~call.caret
    /\ call.res = 0

C9_ZeroCountIdentity ==
    (call.op = "prev_grapheme_offset" /\ call.count = 0) =>
        call.res = call.offset

\* C9 amended: prev_grapheme_offset(o, 0, limit) = min(o, len) for every o
\* and limit, which is o for every o in [0, len].
C9_ZeroCountClamped ==
    (call.op = "prev_grapheme_offset" /\ call.count = 0) =>
        call.res = Min(call.offset, ByteLen(doc))

\* C9 witness: a zero-count call on an offset past the end, with a limit
\* above the result.
C9_Witness ==
    /\ call.op = "prev_grapheme_offset"
    /\ doc = <<"a", "ACUTE">>
    /\ call.count = 0
    /\ call.offset = 4
    /\ call.limit = 4
    /\ call.res = 3

\* C10: indent_on_line(line) never panics and returns the text between the
\* start offset of the line and first_non_blank_character_on_line(line),
\* for every line number, those past last_line + 1 included.
C10_IndentOnLineTotal ==
    call.op = "indent_on_line" =>
        /\ ~call.panicked
        /\ call.txt = slice_to_cow(doc, offset_of_line(doc, call.line),
                          first_non_blank_character_on_line(doc, call.line))

\* C11: first_non_blank_character_on_line(line) is, for line at most
\* last_line + 1, the offset of the first character at or after the start
\* of that line that is not a blank, the length when there is none (so the
\* length for line = last_line + 1); for every line past last_line + 1 it is
\* the value for last_line; on the empty document it is always 0.
C11_FirstNonBlankClampsToLastLine ==
    call.op = "first_non_blank_character_on_line" =>
        LET feeds  == Cardinality({j \in 1..Len(doc) : doc[j] = "LF"})
            starts == {0} \cup {StartOf(doc, i + 1) :
                                   i \in {j \in 1..Len(doc) : doc[j] = "LF"}}
            used   == IF call.line > feeds + 1 THEN feeds ELSE call.line
            start  == IF used = feeds + 1 THEN ByteLen(doc)
                      ELSE CHOOSE x \in starts :
                               Cardinality({y \in starts : y < x}) = used
            stops  == {ByteLen(doc)} \cup
                      {StartOf(doc, i) :
                          i \in {j \in 1..Len(doc) : doc[j] # "SP"}}
            after  == {x \in stops : x >= start}
        IN  /\ call.res \in after
            /\ \A x \in after : call.res <= x
            /\ call.line = feeds + 1 => call.res = ByteLen(doc)
            /\ doc = <<>> => call.res = 0

\* C11 witness: a line two past the last line of a document whose last
\* line starts with a blank resolved to that line's first letter.
C11_Witness ==
    /\ call.op = "first_non_blank_character_on_line"
    /\ doc = <<"LF", "SP", "a">>
    /\ call.line = 3
    /\ call.res = 2

====
